---- MODULE Spec2Model ----
(***************************************************************************)
(* Model of scripts/state-divergence-identifier.py: the transition graph   *)
(* built from a log (build_graph), the relaxation that longest_path runs   *)
(* over it, the node-set pre-check (graph2set) and the comparison of the   *)
(* two paths with difflib.SequenceMatcher.find_longest_match.              *)
(*                                                                         *)
(* Python values are modelled as follows.  A state hash is a number in     *)
(* 1..NumHashes, None is 0 and math.inf is -1 (with its own comparison and *)
(* addition).  A dict whose iteration order the program observes (graph,   *)
(* dists) is a sequence of entries in insertion order; Python lists are    *)
(* sequences; list indices reported by the program stay 0-based.           *)
(***************************************************************************)
EXTENDS Integers, Sequences, FiniteSets, TLC

\* ---------------------------------------------------------------- bounds
NumHashes == 4
MaxLines == 3
MaxLines1 == 2
MaxLines2 == 2

\* ------------------------------------------------------- Python's values
None == 0
Inf == -1

Hashes == 1..NumHashes

Range(s) == {s[x] : x \in 1..Len(s)}

RECURSIVE Reverse(_)
Reverse(s) == IF s = <<>> THEN <<>> ELSE Append(Reverse(Tail(s)), Head(s))

Front(s) == SubSeq(s, 1, Len(s) - 1)

Last(s) == s[Len(s)]

\* a < b on numbers extended with math.inf
Less(a, b) == a # Inf /\ (b = Inf \/ a < b)

\* a + 1 on numbers extended with math.inf
Succ(a) == IF a = Inf THEN Inf ELSE a + 1

\* truthiness of a predecessor value: None is false, a hash string
\* (non-empty by the pattern [0-9a-f]+) is true
Truthy(x) == x # None

\* ------------------------------------------------------------ log files
\* a log line either matches 'state transition: <from> => <to>' or not
NoMatchLine == <<None, None>>

\* pattern.search(line): the groups (group 1, group 2) of the match, or
\* <<None, None>> for the None that a line without the pattern gives
PatternSearch(line) == IF line \in Hashes \X Hashes THEN line ELSE NoMatchLine

\* 'if match:'
IsMatch(m) == m # NoMatchLine

SeqsUpTo(S, n) == UNION {[1..m -> S] : m \in 0..n}

\* the hashes of the matching lines of a log, in order of appearance
RECURSIVE HashSeq(_)
HashSeq(log) ==
    IF log = <<>> THEN <<>>
    ELSE (IF Head(log) = NoMatchLine THEN <<>> ELSE Head(log)) \o HashSeq(Tail(log))

\* Hashes are opaque: the script only tests them for equality.  The logs
\* are therefore taken up to renaming: the first hash to appear is 1, and
\* each new hash is the least number not yet used.
Used(log) == Cardinality(Range(HashSeq(log)))

Max(a, b) == IF a >= b THEN a ELSE b

\* the lines that may follow a log in which the hashes 1..used appear
NextLines(used) ==
    {NoMatchLine} \cup {l \in Hashes \X Hashes :
                          l[1] <= used + 1 /\ l[2] <= Max(used, l[1]) + 1}

\* the logs that extend base by at most n lines
RECURSIVE LogsExtending(_, _)
LogsExtending(base, n) ==
    IF n = 0 THEN {base}
    ELSE {base} \cup UNION {LogsExtending(Append(base, l), n - 1) :
                              l \in NextLines(Used(base))}

\* the lines that follow the first k lines of a log
Suffix(log, k) == SubSeq(log, k + 1, Len(log))

\* ---------------------------------------------------------- build_graph
KeyIndex(d, k) ==
    IF \E x \in 1..Len(d) : d[x].key = k
    THEN CHOOSE x \in 1..Len(d) : d[x].key = k
    ELSE 0

\* res[f].append(t) on a defaultdict(list)
GraphAppend(res, f, t) ==
    LET x == KeyIndex(res, f) IN
    IF x = 0
    THEN Append(res, [key |-> f, children |-> <<t>>])
    ELSE [res EXCEPT ![x].children = Append(@, t)]

RECURSIVE BuildFrom(_, _)
BuildFrom(res, lines) ==
    IF lines = <<>> THEN res
    ELSE LET m == PatternSearch(Head(lines)) IN
         BuildFrom(IF IsMatch(m) THEN GraphAppend(res, m[1], m[2]) ELSE res,
                   Tail(lines))

build_graph(log) == BuildFrom(<<>>, log)

\* graph[k] on a defaultdict(list): a missing key is inserted with []
GraphGet(g, k) ==
    LET x == KeyIndex(g, k) IN
    IF x = 0
    THEN [graph |-> Append(g, [key |-> k, children |-> <<>>]), val |-> <<>>]
    ELSE [graph |-> g, val |-> g[x].children]

Keys(g) == [x \in 1..Len(g) |-> g[x].key]

\* the adjacency mapping as a function: key -> successor list
Adjacency(g) == [k \in Range(Keys(g)) |-> g[KeyIndex(g, k)].children]

\* ------------------------------------------------------------ graph2set
graph2set(g) ==
    Range(Keys(g)) \cup UNION {Range(g[x].children) : x \in 1..Len(g)}

graph_size(g) == Cardinality(graph2set(g))

\* ------------------------------------------- longest_path: parents, genesis
\* the (node, child) pairs in the order the two nested loops visit them
RECURSIVE ItemPairs(_)
ItemPairs(g) ==
    IF g = <<>> THEN <<>>
    ELSE [x \in 1..Len(Head(g).children) |-> <<Head(g).key, Head(g).children[x]>>]
         \o ItemPairs(Tail(g))

RECURSIVE ParentsFold(_, _)
ParentsFold(par, pairs) ==
    IF pairs = <<>> THEN par
    ELSE ParentsFold([par EXCEPT ![Head(pairs)[2]] = Append(@, Head(pairs)[1])],
                     Tail(pairs))

\* parents = defaultdict(list): no hash has an entry yet
NoParents == [h \in Hashes |-> <<>>]

\* a bug that records a parent for the first child of each node only
ParentsFirstChildOnly(g) ==
    ParentsFold(NoParents,
                ItemPairs([x \in 1..Len(g) |->
                    [key |-> g[x].key,
                     children |-> IF g[x].children = <<>> THEN <<>>
                                  ELSE <<Head(g[x].children)>>]]))

\* parents, a defaultdict(list): a hash without an entry reads as []
Parents(g) == ParentsFold(NoParents, ItemPairs(g))

RECURSIVE SelectKeys(_, _)
SelectKeys(keys, par) ==
    IF keys = <<>> THEN <<>>
    ELSE (IF Len(par[Head(keys)]) = 0 THEN <<Head(keys)>> ELSE <<>>)
         \o SelectKeys(Tail(keys), par)

\* [key for key in graph.keys() if len(parents[key]) == 0]
GenesisPoints(g, par) == SelectKeys(Keys(g), par)

\* ---------------------------------------------------- longest_path: dists
DistIndex(d, n) ==
    IF \E x \in 1..Len(d) : d[x].node = n
    THEN CHOOSE x \in 1..Len(d) : d[x].node = n
    ELSE 0

\* dists[n] on a defaultdict: a missing node is inserted as (inf, None)
DistTouch(d, n) ==
    IF DistIndex(d, n) = 0
    THEN Append(d, [node |-> n, dist |-> Inf, pred |-> None])
    ELSE d

\* dists[n] = (dist, pred): an existing key keeps its position
DistSet(d, n, dist, pred) ==
    LET x == DistIndex(d, n) IN
    IF x = 0
    THEN Append(d, [node |-> n, dist |-> dist, pred |-> pred])
    ELSE [d EXCEPT ![x] = [node |-> n, dist |-> dist, pred |-> pred]]

DistOf(d, n) == d[DistIndex(d, n)].dist

PredOf(d, n) == d[DistIndex(d, n)].pred

RECURSIVE SeedFold(_, _)
SeedFold(d, nodes) ==
    IF nodes = <<>> THEN d
    ELSE SeedFold(DistSet(d, Head(nodes), 0, None), Tail(nodes))

\* a bug that seeds every key of the graph instead of the genesis points
SeedAllKeys(g, genesis) == SeedFold(<<>>, Keys(g))

\* for genesis in genesis_points: dists[genesis] = (0, None)
SeedDists(g, genesis) == SeedFold(<<>>, genesis)

\* a bug that relaxes a successor only the first time it is reached
ImprovesUnreachedOnly(new_dist, old_dist) == old_dist = Inf

\* new_dist < dists[node][0]
Improves(new_dist, old_dist) == Less(new_dist, old_dist)

\* a bug that reads the top of the frontier without removing it
FrontierPeek(f) == f

\* the list left by frontier.pop()
FrontierPop(f) == Front(f)

\* Op(v) with v evaluated once and bound as a value (TLC otherwise
\* re-evaluates an operator argument at each of its uses)
Strict(v, Op(_)) == CHOOSE r \in {Op(x) : x \in {v}} : TRUE

\* the body of 'for node in nxt' for one node
RelaxOne(curr, node, d, f) ==
    LET new_dist == Succ(DistOf(d, curr))
        d1       == DistTouch(d, node)
    IN  IF Improves(new_dist, DistOf(d1, node))
        THEN [dists |-> DistSet(d1, node, new_dist, curr), frontier |-> Append(f, node)]
        ELSE [dists |-> d1, frontier |-> f]

\* 'for node in nxt'
RECURSIVE RelaxFold(_, _, _, _)
RelaxFold(curr, nxt, d, f) ==
    IF nxt = <<>> THEN [dists |-> d, frontier |-> f]
    ELSE LET Rest(st) == RelaxFold(curr, Tail(nxt), st.dists, st.frontier)
         IN  Strict(RelaxOne(curr, Head(nxt), d, f), Rest)

\* -------------------------------------------- longest_path: end and path
\* max(dists.items(), key=dist): the first entry of greatest distance
MaxIndex(d) ==
    CHOOSE x \in 1..Len(d) :
        /\ \A y \in 1..Len(d) : ~Less(d[x].dist, d[y].dist)
        /\ \A y \in 1..(x - 1) : Less(d[y].dist, d[x].dist)

\* the loop 'while curr is not None', from the terminal backwards
RECURSIVE WalkBack(_, _)
WalkBack(d, n) ==
    LET nxt == PredOf(d, n) IN
    IF Truthy(nxt) THEN <<n>> \o WalkBack(d, nxt) ELSE <<n>>

\* a bug that returns the path terminal-first
BackwardPath(d) == WalkBack(d, d[MaxIndex(d)].node)

\* list(reversed(path))
ResultPath(d) == Reverse(WalkBack(d, d[MaxIndex(d)].node))

\* ------------------------- difflib.SequenceMatcher(a, b).find_longest_match
\* b2j[elt]: the 0-based indices of elt in b, ascending (no junk, and no
\* 'popular' elements in a sequence of fewer than 200 items)
B2J(b, elt) ==
    LET idx == {x \in 1..Len(b) : b[x] = elt}
        F[n \in 0..Len(b)] ==
            IF n = 0 THEN <<>>
            ELSE IF n \in idx THEN Append(F[n - 1], n - 1) ELSE F[n - 1]
    IN  F[Len(b)]

\* isbjunk: the junk set of b is empty when isjunk is None
IsBJunk(elt) == FALSE

\* j2len.get(j, 0)
J2Get(j2len, j) == IF j \in DOMAIN j2len THEN j2len[j] ELSE 0

\* a bug that continues the run ending at b[j] instead of b[j-1]
PrevLenSameColumn(j2len, j) == J2Get(j2len, j)

\* j2lenget(j-1, 0)
PrevLen(j2len, j) == J2Get(j2len, j - 1)

EmptyDict == [x \in {} |-> 0]

\* 'for j in b2j.get(a[i], nothing)' for one i (0-based)
RECURSIVE MatchColumns(_, _, _, _, _, _, _)
MatchColumns(js, i, blo, bhi, j2len, newj2len, best) ==
    IF js = <<>> THEN [newj2len |-> newj2len, best |-> best]
    ELSE LET j == Head(js) IN
         IF j < blo
         THEN MatchColumns(Tail(js), i, blo, bhi, j2len, newj2len, best)
         ELSE IF j >= bhi
         THEN [newj2len |-> newj2len, best |-> best]
         ELSE LET k == PrevLen(j2len, j) + 1 IN
              MatchColumns(Tail(js), i, blo, bhi, j2len,
                           (j :> k) @@ newj2len,
                           IF k > best[3] THEN <<i - k + 1, j - k + 1, k>> ELSE best)

\* 'for i in range(alo, ahi)'
RECURSIVE MatchRows(_, _, _, _, _, _, _, _)
MatchRows(a, b, i, ahi, blo, bhi, j2len, best) ==
    IF i >= ahi THEN best
    ELSE LET r == MatchColumns(B2J(b, a[i + 1]), i, blo, bhi, j2len, EmptyDict, best)
         IN  MatchRows(a, b, i + 1, ahi, blo, bhi, r.newj2len, r.best)

\* the two loops that extend the block to the left (junk = FALSE: by
\* non-junk elements, junk = TRUE: by junk elements)
RECURSIVE ExtendLeft(_, _, _, _, _, _)
ExtendLeft(a, b, alo, blo, junk, best) ==
    IF /\ best[1] > alo
       /\ best[2] > blo
       /\ IsBJunk(b[best[2]]) = junk
       /\ a[best[1]] = b[best[2]]
    THEN ExtendLeft(a, b, alo, blo, junk, <<best[1] - 1, best[2] - 1, best[3] + 1>>)
    ELSE best

\* the two loops that extend the block to the right
RECURSIVE ExtendRight(_, _, _, _, _, _)
ExtendRight(a, b, ahi, bhi, junk, best) ==
    IF /\ best[1] + best[3] < ahi
       /\ best[2] + best[3] < bhi
       /\ IsBJunk(b[best[2] + best[3] + 1]) = junk
       /\ a[best[1] + best[3] + 1] = b[best[2] + best[3] + 1]
    THEN ExtendRight(a, b, ahi, bhi, junk, <<best[1], best[2], best[3] + 1>>)
    ELSE best

\* find_longest_match() with its defaults alo = blo = 0, ahi = len(a),
\* bhi = len(b); the result is the 0-based triple (i, j, k)
find_longest_match(a, b) ==
    LET alo == 0
        blo == 0
        ahi == Len(a)
        bhi == Len(b)
        m0  == MatchRows(a, b, alo, ahi, blo, bhi, EmptyDict, <<alo, blo, 0>>)
        m1  == ExtendLeft(a, b, alo, blo, FALSE, m0)
        m2  == ExtendRight(a, b, ahi, bhi, FALSE, m1)
        m3  == ExtendLeft(a, b, alo, blo, TRUE, m2)
    IN  ExtendRight(a, b, ahi, bhi, TRUE, m3)

\* the lines printed after the comparison
MatchReport(p1, p2, m) ==
    LET i == m[1]
        j == m[2]
        k == m[3]
    IN  IF k = 0
        THEN << <<"no common substring on longest paths">> >>
        ELSE << <<"common substring of length", k>>,
                <<"first common state hash", p1[i + 1]>>,
                <<"last common state hash", p1[i + k]>>,
                <<"substring in log 1", i, i + k - 1, Len(p1)>>,
                <<"substring in log 2", j, j + k - 1, Len(p2)>> >>

\* the lines printed by the disjointness pre-check
DisjointReport(g1, g2) ==
    IF graph2set(g1) \cap graph2set(g2) = {}
    THEN << <<"graphs are disjoint!">>,
            <<"total entries", graph_size(g1), graph_size(g2)>> >>
    ELSE <<>>

\* ================================================================ state
VARIABLES
    log1, log2,          \* the lines of the two log files
    graph1, graph2,      \* the two defaultdict graphs
    pc,                  \* position of the script
    run,                 \* which call of longest_path is running (1 or 2)
    arg,                 \* which graph that call was passed (1 or 2)
    parents,             \* longest_path: parents
    genesis_points,      \* longest_path: genesis_points
    frontier,            \* longest_path: frontier (the same list object)
    dists,               \* longest_path: dists
    path1, path2,        \* the two returned paths
    match,               \* (i, j, k) of find_longest_match
    out,                 \* lines printed so far
    err                  \* the uncaught exception, if any

vars == <<log1, log2, graph1, graph2, pc, run, arg, parents, genesis_points,
          frontier, dists, path1, path2, match, out, err>>

locals == <<parents, genesis_points, frontier, dists>>

TheGraph == IF arg = 1 THEN graph1 ELSE graph2

InitRest ==
    /\ graph1 = <<>>
    /\ graph2 = <<>>
    /\ run = 0
    /\ arg = 0
    /\ parents = NoParents
    /\ genesis_points = <<>>
    /\ frontier = <<>>
    /\ dists = <<>>
    /\ match = <<0, 0, 0>>
    /\ out = <<>>
    /\ err = "none"

\* ------------------------------------------------- longest_path (19-48)
\* lines 20-24: the parent mapping and the genesis points
LPParents ==
    /\ pc = "lp_parents"
    /\ parents' = Parents(TheGraph)
    /\ genesis_points' = GenesisPoints(TheGraph, Parents(TheGraph))
    /\ frontier' = <<>>
    /\ dists' = <<>>
    /\ pc' = "lp_seed"
    /\ UNCHANGED <<log1, log2, graph1, graph2, run, arg, path1, path2, match, out, err>>

\* lines 25-28: seed the distances; frontier is the genesis_points list itself
LPSeed ==
    /\ pc = "lp_seed"
    /\ dists' = SeedDists(TheGraph, genesis_points)
    /\ frontier' = genesis_points
    /\ pc' = "lp_loop"
    /\ UNCHANGED <<log1, log2, graph1, graph2, run, arg, parents, genesis_points,
                   path1, path2, match, out, err>>

\* lines 29-36: one iteration of the while loop
LPIter ==
    /\ pc = "lp_loop"
    /\ Len(frontier) # 0
    /\ \E curr \in {Last(frontier)} :
       \E got \in {GraphGet(TheGraph, curr)} :
       \E st \in {RelaxFold(curr, got.val, dists, FrontierPop(frontier))} :
           /\ graph1' = IF arg = 1 THEN got.graph ELSE graph1
           /\ graph2' = IF arg = 2 THEN got.graph ELSE graph2
           /\ dists' = st.dists
           /\ frontier' = st.frontier
           /\ genesis_points' = st.frontier
    /\ UNCHANGED <<log1, log2, pc, run, arg, parents, path1, path2, match, out, err>>

\* line 37 on an empty dists: max() raises ValueError, nothing catches it
LPRaise ==
    /\ pc = "lp_loop"
    /\ Len(frontier) = 0
    /\ dists = <<>>
    /\ err' = "ValueError"
    /\ pc' = "crashed"
    /\ UNCHANGED <<log1, log2, graph1, graph2, run, arg, locals, path1, path2, match, out>>

\* lines 37-48: pick the terminal, walk the predecessors, return the path
LPReturn ==
    /\ pc = "lp_loop"
    /\ Len(frontier) = 0
    /\ dists # <<>>
    /\ path1' = IF run = 1 THEN ResultPath(dists) ELSE path1
    /\ path2' = IF run = 2 THEN ResultPath(dists) ELSE path2
    /\ pc' = IF run = 1 THEN "ret1" ELSE "ret2"
    /\ UNCHANGED <<log1, log2, graph1, graph2, run, arg, locals, match, out, err>>

longest_path == LPParents \/ LPSeed \/ LPIter \/ LPRaise \/ LPReturn

\* ------------------------------------------------ the script (67-86)
\* lines 68-71
Parse ==
    /\ pc = "start"
    /\ graph1' = build_graph(log1)
    /\ graph2' = build_graph(log2)
    /\ out' = out \o << <<"parsing log 1...">>, <<"parsing log 2...">> >>
    /\ pc' = "check"
    /\ UNCHANGED <<log1, log2, run, arg, locals, path1, path2, match, err>>

\* lines 72-76: the pre-check, then the call longest_path(graph1)
DisjointCheck ==
    /\ pc = "check"
    /\ out' = out \o DisjointReport(graph1, graph2)
                  \o << <<"finding longest paths...">> >>
    /\ run' = 1
    /\ arg' = 1
    /\ pc' = "lp_parents"
    /\ UNCHANGED <<log1, log2, graph1, graph2, locals, path1, path2, match, err>>

\* line 77: the call longest_path(graph2)
SecondCall ==
    /\ pc = "ret1"
    /\ run' = 2
    /\ arg' = 2
    /\ pc' = "lp_parents"
    /\ UNCHANGED <<log1, log2, graph1, graph2, locals, path1, path2, match, out, err>>

\* lines 78-86
Compare ==
    /\ pc = "ret2"
    /\ match' = find_longest_match(path1, path2)
    /\ out' = out \o MatchReport(path1, path2, find_longest_match(path1, path2))
    /\ pc' = "done"
    /\ UNCHANGED <<log1, log2, graph1, graph2, run, arg, locals, path1, path2, err>>

Init ==
    /\ log1 \in LogsExtending(<<>>, MaxLines1)
    /\ log2 \in {Suffix(l, Len(log1)) : l \in LogsExtending(log1, MaxLines2)}
    /\ pc = "start"
    /\ path1 = <<>>
    /\ path2 = <<>>
    /\ InitRest

Next == Parse \/ DisjointCheck \/ longest_path \/ SecondCall \/ Compare

Spec == Init /\ [][Next]_vars

\* ------------- longest_path run twice on the graph of one log (idempotence)
TwiceFirst ==
    /\ pc = "start"
    /\ graph1' = build_graph(log1)
    /\ run' = 1
    /\ arg' = 1
    /\ pc' = "lp_parents"
    /\ UNCHANGED <<log1, log2, graph2, locals, path1, path2, match, out, err>>

\* the second call is passed the same graph object; its result is path2
TwiceSecond ==
    /\ pc = "ret1"
    /\ run' = 2
    /\ arg' = 1
    /\ pc' = "lp_parents"
    /\ UNCHANGED <<log1, log2, graph1, graph2, locals, path1, path2, match, out, err>>

InitTwice ==
    /\ log1 \in LogsExtending(<<>>, MaxLines)
    /\ log2 = <<>>
    /\ pc = "start"
    /\ path1 = <<>>
    /\ path2 = <<>>
    /\ InitRest

NextTwice == TwiceFirst \/ longest_path \/ TwiceSecond

SpecTwice == InitTwice /\ [][NextTwice]_vars

\* the script is sequential: a loop iteration that can be taken is taken
SpecTwiceFair == SpecTwice /\ WF_vars(LPIter)

\* --------------------- the comparison applied to any two paths (78-86)
\* a path returned by longest_path never repeats a hash
Paths == {s \in SeqsUpTo(Hashes, NumHashes) : \A x, y \in 1..Len(s) : s[x] = s[y] => x = y}

InitCompare ==
    /\ log1 = <<>>
    /\ log2 = <<>>
    /\ path1 \in Paths
    /\ path2 \in Paths
    /\ pc = "ret2"
    /\ InitRest

NextCompare == Compare

SpecCompare == InitCompare /\ [][NextCompare]_vars

\* =========================================================== properties
\* Graph notions the properties are stated in, computed from the edge set
\* alone and not by the relaxation.
EdgeSet(g) ==
    UNION {{<<g[x].key, g[x].children[y]>> : y \in 1..Len(g[x].children)} :
             x \in 1..Len(g)}

NodeSet(E) == {e[1] : e \in E} \cup {e[2] : e \in E}

\* a 'from' of some edge that is the 'to' of none
GenesisSet(E) == {e[1] : e \in E} \ {e[2] : e \in E}

\* the nodes that a walk of exactly k edges from a node of S ends in
RECURSIVE StepsFrom(_, _, _)
StepsFrom(E, S, k) ==
    IF k = 0 THEN S
    ELSE {e[2] : e \in {d \in E : d[1] \in StepsFrom(E, S, k - 1)}}

Acyclic(E) == StepsFrom(E, NodeSet(E), Cardinality(NodeSet(E))) = {}

Reachable(E) == UNION {StepsFrom(E, GenesisSet(E), k) : k \in 0..NumHashes}

\* fewest edges on a path from a genesis node to n
MinDist(E, n) ==
    CHOOSE k \in 0..NumHashes :
        /\ n \in StepsFrom(E, GenesisSet(E), k)
        /\ \A m \in 0..(k - 1) : n \notin StepsFrom(E, GenesisSet(E), m)

\* most edges on a path that starts at a genesis node (acyclic graphs)
LongestEdges(E) ==
    CHOOSE k \in 0..NumHashes :
        /\ StepsFrom(E, GenesisSet(E), k) # {}
        /\ StepsFrom(E, GenesisSet(E), k + 1) = {}

ChainEdges(s) == {<<s[x], s[x + 1]>> : x \in 1..(Len(s) - 1)}

Graph0 == build_graph(log1)

Terminated == pc \in {"done", "crashed"}

\* C1: for an acyclic graph with at least one edge, no path that starts at
\* a genesis node has more edges than the path longest_path returns.
C1_LongestPathIsLongest ==
    (pc = "ret1" /\ EdgeSet(Graph0) # {} /\ Acyclic(EdgeSet(Graph0)))
        => Len(path1) - 1 >= LongestEdges(EdgeSet(Graph0))

\* C2: the comparator's (i, j, k) is a longest common contiguous run of the
\* two paths, k = 0 is what is reported as 'no common substring', and two
\* paths that share a prefix of length p and nothing after it give (0, 0, p).
C2_LongestCommonRun ==
    pc = "done" =>
        LET i == match[1]
            j == match[2]
            k == match[3]
            CommonRun(x, y, n) ==
                /\ x + n <= Len(path1)
                /\ y + n <= Len(path2)
                /\ \A t \in 1..n : path1[x + t] = path2[y + t]
        IN  /\ i >= 0 /\ j >= 0 /\ k >= 0
            /\ CommonRun(i, j, k)
            /\ \A x \in 0..Len(path1), y \in 0..Len(path2) : ~CommonRun(x, y, k + 1)
            /\ (k = 0) <=> (<<"no common substring on longest paths">> \in Range(out))
            /\ \A p \in 0..Len(path1) :
                 (/\ CommonRun(0, 0, p)
                  /\ Range(SubSeq(path1, p + 1, Len(path1)))
                        \cap Range(SubSeq(path2, p + 1, Len(path2))) = {})
                 => match = <<0, 0, p>>

C2_Witness ==
    /\ pc = "done"
    /\ path1 = <<1, 2, 3>>
    /\ path2 = <<1, 2, 4>>
    /\ match = <<0, 0, 2>>
    /\ <<"common substring of length", 2>> \in Range(out)

\* C3: two logs without a transition line give two empty paths, no error,
\* and a reported common run of length 0.
C3_EmptyLogsCompare ==
    (Terminated /\ build_graph(log1) = <<>> /\ build_graph(log2) = <<>>)
        => /\ err = "none"
           /\ pc = "done"
           /\ path1 = <<>>
           /\ path2 = <<>>
           /\ match[3] = 0
           /\ <<"no common substring on longest paths">> \in Range(out)

\* C4: every genesis point has no entry in the parent mapping, and every
\* other node of the graph ('from' or 'to') has at least one.
C4_GenesisHaveNoParents ==
    pc = "lp_seed" =>
        /\ \A n \in Range(genesis_points) : Len(parents[n]) = 0
        /\ \A n \in graph2set(TheGraph) \ Range(genesis_points) : Len(parents[n]) >= 1

C4_Witness ==
    /\ pc = "lp_seed"
    /\ Len(genesis_points) = 2
    /\ \E x \in 1..Len(TheGraph) : Len(parents[TheGraph[x].key]) = 2
    /\ \E n \in graph2set(TheGraph) : n \notin Range(Keys(TheGraph))

\* C5: for a graph that is one chain n1 -> ... -> nk (k >= 2, edges possibly
\* repeated, in any order), longest_path returns <<n1, ..., nk>>.
C5_ChainIsReturned ==
    pc = "ret1" =>
        \A s \in Paths :
            (Len(s) >= 2 /\ EdgeSet(Graph0) = ChainEdges(s)) => path1 = s

C5_Witness ==
    /\ pc = "ret1"
    /\ Len(path1) = 4
    /\ EdgeSet(Graph0) = ChainEdges(path1)
    /\ Keys(Graph0) # SubSeq(path1, 1, 3)

\* C6: a second run of longest_path on the same graph object returns the
\* path the first run returned.
C6_SecondRunSamePath == pc = "ret2" => path2 = path1

C6_Witness ==
    /\ pc = "ret2"
    /\ path2 = path1
    /\ Len(path1) >= 3
    /\ Len(graph1) > Len(Graph0)

\* C7: a call of longest_path leaves the adjacency mapping as build_graph
\* made it: the same keys, and the same successor list for every key.
C7_GraphUnchanged ==
    pc = "ret1" => Adjacency(graph1) = Adjacency(Graph0)

\* C8: for two graphs without a common hash the tool prints that the graphs
\* are disjoint and the comparison reports 'no common substring'.
C8_DisjointReported ==
    (Terminated /\ graph2set(build_graph(log1)) \cap graph2set(build_graph(log2)) = {})
        => /\ <<"graphs are disjoint!">> \in Range(out)
           /\ pc = "done"
           /\ match[3] = 0
           /\ <<"no common substring on longest paths">> \in Range(out)

\* C9: on an acyclic graph the relaxation loop terminates: the frontier
\* eventually becomes empty.
C9_LoopTerminates ==
    (pc = "lp_loop" /\ Acyclic(EdgeSet(TheGraph))) ~> (pc = "lp_loop" /\ frontier = <<>>)

C9_Witness ==
    /\ pc = "lp_loop"
    /\ frontier = <<>>
    /\ Acyclic(EdgeSet(TheGraph))
    /\ Len(dists) = 4
    /\ Cardinality(GenesisSet(EdgeSet(TheGraph))) = 2

\* C10: when the frontier is exhausted, exactly the nodes reachable from a
\* genesis node have a distance record, the recorded distance is the fewest
\* edges from the genesis set, a genesis node has no predecessor and any
\* other node's predecessor is one closer and has an edge to the node.
C10_ShortestDistances ==
    (pc = "lp_loop" /\ frontier = <<>>) =>
        LET E == EdgeSet(TheGraph) IN
        /\ {dists[x].node : x \in 1..Len(dists)} = Reachable(E)
        /\ \A x \in 1..Len(dists) :
             LET n == dists[x].node IN
             /\ dists[x].dist = MinDist(E, n)
             /\ IF n \in GenesisSet(E)
                THEN dists[x].pred = None
                ELSE /\ dists[x].pred \in Reachable(E)
                     /\ DistOf(dists, dists[x].pred) = dists[x].dist - 1
                     /\ <<dists[x].pred, n>> \in E

\* a node was first recorded at distance 2 and later improved to 1
C10_Witness ==
    /\ pc = "lp_loop"
    /\ frontier = <<>>
    /\ \E x, y \in 1..Len(dists) :
         /\ dists[x].dist = 1
         /\ dists[y].dist = 1
         /\ <<dists[y].node, dists[x].node>> \in EdgeSet(TheGraph)
         /\ y < x

====
